---- MODULE Spec2Model ----
(***************************************************************************)
(* NodeRestarter::watch (narwhal/node/src/restarter.rs): the supervisor    *)
(* that starts a primary and its workers for the current committee, waits  *)
(* for a reconfiguration message, shuts the generation down, and starts    *)
(* the next one.  The supervisor is one sequential async function; pc is   *)
(* its position, one action per stretch of code between two await points.  *)
(* The primary and worker tasks, the producer of reconfiguration messages  *)
(* and the HTTP shutdown notification are the environment.                 *)
(***************************************************************************)
EXTENDS Integers, Sequences, FiniteSets, TLC

\* ------------------------------------------------------------------ bounds
\* Number of ReconfigureMessages the producers send in one run.
MaxMsgs == 2
\* Committee epochs carried by the messages range over 0..MaxEpoch.
MaxEpoch == 2
\* Capacity of the bounded reconfiguration channel (the tests use 10).
ChannelCapacity == 2
\* bound on the sends a generation's own producer starts beyond MaxMsgs
MaxBlocked == 2

\* ------------------------------------------------------------- value model
\* A message is built from an epoch and an identity variant; each field is
\* tagged with its type so that one field can never pass for another.
Variants == {1, 2}
Epochs == 0..MaxEpoch

NoStore == [id |-> 0, path |-> <<>>]
NoMsg == <<>>
\* The content of a cell whose last Arc was dropped.
Freed == [epoch |-> -1, authorities |-> <<>>]

KeyPairOf(v) == <<"keypair", v>>
NetworkKeyPairOf(v) == <<"network_keypair", v>>
CommitteeOf(e, v) == [epoch |-> e, authorities |-> <<"authorities", v>>]
WorkerCacheOf(e, v) == [epoch |-> e, workers |-> <<"addresses", v>>]
\* Variant v runs v workers: ids 0..v-1, each with its own network keypair.
WorkerIdsAndKeypairsOf(v) == [i \in 1..v |-> <<i - 1, <<"worker_keypair", v, i>>>>]

\* KeyPair::public(): the public key of a keypair.
Public(kp) == <<"public", kp[2]>>

\* The tuple sent on the channel:
\* (KeyPair, NetworkKeyPair, Committee, Vec<(WorkerId, NetworkKeyPair)>, WorkerCache).
ReconfigureMessage(e, v) ==
    <<KeyPairOf(v), NetworkKeyPairOf(v), CommitteeOf(e, v),
      WorkerIdsAndKeypairsOf(v), WorkerCacheOf(e, v)>>

\* Mutant of StorePath: the epoch of the committee watch was called with.
StorePathOfFirstEpoch(base, c) == <<base, "epoch", 0>>

\* format!("epoch{}", committee.epoch()) pushed onto storage_base_path.
StorePath(base, c) == <<base, "epoch", c.epoch>>

VARIABLES
    pc,                       \* position of watch
    primary_keypair,          \* let mut primary_keypair
    primary_network_keypair,  \* let mut primary_network_keypair
    name,                     \* let mut name
    worker_ids_and_keypairs,  \* let mut worker_ids_and_keypairs
    committee,                \* let mut committee
    worker_cache,             \* the SharedWorkerCache handle passed to watch (a cell id)
    cells,                    \* the ArcSwap cells: cell id -> the value it holds
    handles,                  \* let mut handles: the join handles (task ids)
    primary_handles,          \* let primary_handles
    registry_id,              \* let mut registry_id
    registry_service,         \* ids registered in the RegistryService
    store,                    \* let store: the NodeStorage of this iteration
    open_stores,              \* NodeStorage values that are open
    new_msg,                  \* the tuple bound by rx_reconfigure.recv()
    rx_reconfigure,           \* messages buffered in the channel
    senders_dropped,          \* every Sender of the channel was dropped
    blocked,                  \* sends awaiting a permit: [task, msg]
    closed_with,              \* history: the messages buffered when the channel was closed
    tasks,                    \* task id -> the task's arguments and state
    generation,               \* number of loop iterations started
    generations,              \* history: what each generation was spawned with
    sent,                     \* history: every message sent, in order
    consumed,                 \* history: every message received, in order
    notifications,            \* history: every Shutdown POST and its outcome
    swaps,                    \* history: number of worker_cache.swap calls
    drops                     \* history: each NodeStorage dropped, and how

vars == <<pc, primary_keypair, primary_network_keypair, name,
          worker_ids_and_keypairs, committee, worker_cache, cells, handles,
          primary_handles, registry_id, registry_service, store, open_stores,
          new_msg, rx_reconfigure, senders_dropped, blocked, closed_with,
          tasks, generation,
          generations, sent, consumed, notifications, swaps, drops>>

locals == <<primary_keypair, primary_network_keypair, name,
            worker_ids_and_keypairs, committee>>
channel == <<rx_reconfigure, senders_dropped, blocked, closed_with, sent>>
history == <<consumed, notifications, swaps>>
progress == <<generation, generations>>

\* ------------------------------------------------------------------ helpers
Running(t) == tasks[t].state = "running"
Finished(t) == tasks[t].state \in {"exited", "panicked"}
TasksOf(g) == {t \in DOMAIN tasks : tasks[t].gen = g}
RunningTasks == {t \in DOMAIN tasks : Running(t)}

\* Arc::new(ArcSwap::new(Arc::new(value))): a new cell holding value.
NewCell(cs, value) == Append(cs, value)

\* The cells after the tasks in `gone` were joined: the committee cell of a
\* joined task is dropped with it unless another task still holds it.
DropCells(gone) ==
    [c \in DOMAIN cells |->
        IF /\ \E t \in gone : tasks[t].committee = c
           /\ \A u \in DOMAIN tasks \ gone : tasks[u].committee # c
        THEN Freed ELSE cells[c]]

\* The tasks map with the tasks of `new` (id -> record) added.
WithTasks(new) ==
    [t \in DOMAIN tasks \cup DOMAIN new |->
        IF t \in DOMAIN new THEN new[t] ELSE tasks[t]]

\* The locals of the loop body go out of scope (break, or unwinding after a
\* panic): the NodeStorage is dropped and the JoinHandles are dropped, which
\* detaches the tasks without stopping them.
LeaveScope(how) ==
    /\ open_stores' = open_stores \ {store}
    /\ store' = NoStore
    /\ drops' = IF store = NoStore THEN drops
                 ELSE Append(drops, [id |-> store.id, how |-> how])
    /\ handles' = {}
    /\ primary_handles' = {}

\* -------------------------------------------------------------------- Init
\* watch is called with the epoch-0 committee and the identity of variant 1;
\* the shared worker cache is cell 1.
Init ==
    /\ pc = "Provision"
    /\ primary_keypair = KeyPairOf(1)
    /\ primary_network_keypair = NetworkKeyPairOf(1)
    /\ name = Public(KeyPairOf(1))
    /\ worker_ids_and_keypairs = WorkerIdsAndKeypairsOf(1)
    /\ committee = CommitteeOf(0, 1)
    /\ worker_cache = 1
    /\ cells = <<WorkerCacheOf(0, 1)>>
    /\ handles = {}
    /\ primary_handles = {}
    /\ registry_id = 0
    /\ registry_service = {}
    /\ store = NoStore
    /\ open_stores = {}
    /\ new_msg = NoMsg
    /\ rx_reconfigure = <<>>
    /\ senders_dropped = FALSE
    /\ blocked = {}
    /\ closed_with = <<>>
    /\ tasks = <<>>
    /\ generation = 0
    /\ generations = <<>>
    /\ sent = <<>>
    /\ consumed = <<>>
    /\ notifications = <<>>
    /\ swaps = 0
    /\ drops = <<>>

\* ------------------------------------------------------- supervisor actions
\* Lines 54-64: register a new metrics registry, reopen the store of the epoch.
Provision ==
    /\ pc = "Provision"
    /\ generation' = generation + 1
    /\ registry_id' = generation + 1
    /\ registry_service' = registry_service \cup {generation + 1}
    /\ store' = [id |-> generation + 1, path |-> StorePath("base", committee)]
    /\ open_stores' = open_stores \cup {store'}
    /\ pc' = "SpawnPrimary"
    /\ UNCHANGED <<locals, worker_cache, cells, handles, primary_handles,
                   new_msg, channel, tasks, generations, history, drops>>

\* The record of the primary task spawned by Node::spawn_primary.
PrimaryTask(cell) ==
    [gen |-> generation, role |-> "primary",
     keypair |-> primary_keypair, network_keypair |-> primary_network_keypair,
     name |-> Public(primary_keypair), worker_id |-> -1,
     committee |-> cell, worker_cache |-> worker_cache,
     store |-> store, registry |-> registry_id,
     signal |-> FALSE, state |-> "running"]

\* History: the arguments of a spawn call by value: the committee the new
\* cell holds, the content of the worker cache handle and the stores open at
\* the call; handle and cell are the ids of the two ArcSwap cells passed.
Spawned(task) ==
    [args |-> [task EXCEPT !.committee = committee,
                           !.worker_cache = cells[worker_cache]],
     handle |-> task.worker_cache,
     cell |-> task.committee,
     open |-> open_stores,
     workers |-> <<>>,
     drained |-> FALSE]

\* Mutant of SpawnPrimaryOk: one committee handle is made in the first
\* iteration and reused, with the current committee stored into it.
SpawnPrimaryShared ==
    /\ pc = "SpawnPrimary"
    /\ LET cell == IF generations = <<>> THEN Len(cells) + 1 ELSE generations[1].cell
       IN /\ cells' = IF generations = <<>> THEN NewCell(cells, committee)
                      ELSE [cells EXCEPT ![cell] = committee]
          /\ tasks' = WithTasks([t \in {<<generation, 0>>} |-> PrimaryTask(cell)])
          /\ generations' = Append(generations, Spawned(PrimaryTask(cell)))
    /\ primary_handles' = {<<generation, 0>>}
    /\ pc' = "SpawnWorkers"
    /\ UNCHANGED <<locals, worker_cache, handles, registry_id, registry_service,
                   store, open_stores, new_msg, channel, generation, history,
                   drops>>

\* Lines 67-79, Ok: the primary runs with a new committee cell.
SpawnPrimaryOk ==
    /\ pc = "SpawnPrimary"
    /\ cells' = NewCell(cells, committee)
    /\ tasks' = WithTasks([t \in {<<generation, 0>>} |-> PrimaryTask(Len(cells) + 1)])
    /\ primary_handles' = {<<generation, 0>>}
    /\ generations' = Append(generations, Spawned(PrimaryTask(Len(cells) + 1)))
    /\ pc' = "SpawnWorkers"
    /\ UNCHANGED <<locals, worker_cache, handles, registry_id, registry_service,
                   store, open_stores, new_msg, channel, generation, history,
                   drops>>

\* Mutant of SpawnPrimaryErr: the error is dropped (unwrap_or_default) and the
\* loop goes on without a primary.
SpawnPrimaryErrIgnored ==
    /\ pc = "SpawnPrimary"
    /\ pc' = "SpawnWorkers"
    /\ UNCHANGED <<locals, worker_cache, cells, handles, primary_handles,
                   registry_id, registry_service, store, open_stores, new_msg,
                   channel, tasks, progress, history, drops>>

\* Lines 67-79, Err: unwrap panics, the locals are unwound.
SpawnPrimaryErr ==
    /\ pc = "SpawnPrimary"
    /\ pc' = "Panicked"
    /\ LeaveScope("unwind")
    /\ UNCHANGED <<locals, worker_cache, cells, registry_id, registry_service,
                   new_msg, channel, tasks, progress, history>>

\* The record of worker i spawned by Node::spawn_workers.
WorkerTask(i, cell) ==
    [gen |-> generation, role |-> "worker",
     keypair |-> <<>>, network_keypair |-> worker_ids_and_keypairs[i][2],
     name |-> name, worker_id |-> worker_ids_and_keypairs[i][1],
     committee |-> cell, worker_cache |-> worker_cache,
     store |-> store, registry |-> registry_id,
     signal |-> FALSE, state |-> "running"]

\* Mutant of SpawnWorkers: the workers are given the primary's committee cell.
SpawnWorkersSharedCell ==
    /\ pc = "SpawnWorkers"
    /\ cells' = cells
    /\ LET ids == {<<generation, i>> : i \in 1..Len(worker_ids_and_keypairs)}
           cell == generations[generation].cell
       IN /\ tasks' = WithTasks([t \in ids |-> WorkerTask(t[2], cell)])
          /\ handles' = handles \cup primary_handles \cup ids
          /\ generations' = [generations EXCEPT ![generation].workers =
                [i \in 1..Len(worker_ids_and_keypairs) |-> Spawned(WorkerTask(i, cell))]]
    /\ primary_handles' = {}
    /\ pc' = "Settle"
    /\ UNCHANGED <<locals, worker_cache, registry_id, registry_service, store,
                   open_stores, new_msg, channel, generation, history, drops>>

\* Lines 81-93: the workers run with another new committee cell; the handles
\* of the primary and of the workers are kept.
SpawnWorkers ==
    /\ pc = "SpawnWorkers"
    /\ cells' = NewCell(cells, committee)
    /\ LET ids == {<<generation, i>> : i \in 1..Len(worker_ids_and_keypairs)}
       IN /\ tasks' = WithTasks([t \in ids |-> WorkerTask(t[2], Len(cells) + 1)])
          /\ handles' = handles \cup primary_handles \cup ids
    /\ primary_handles' = {}
    /\ generations' = [generations EXCEPT ![generation].workers =
            [i \in 1..Len(worker_ids_and_keypairs) |-> Spawned(WorkerTask(i, Len(cells) + 1))]]
    /\ pc' = "Settle"
    /\ UNCHANGED <<locals, worker_cache, registry_id, registry_service, store,
                   open_stores, new_msg, channel, generation, history, drops>>

\* Line 97: the bootstrap delay elapses.
Settle ==
    /\ pc = "Settle"
    /\ pc' = "Await"
    /\ UNCHANGED <<locals, worker_cache, cells, handles, primary_handles,
                   registry_id, registry_service, store, open_stores, new_msg,
                   channel, tasks, progress, history, drops>>

\* Mutant of Recv: the newest buffered message is taken.
RecvNewest(q) == [msg |-> q[Len(q)], rest |-> SubSeq(q, 1, Len(q) - 1)]

\* Receiver::recv of a buffered message: the oldest one.
Recv(q) == [msg |-> Head(q), rest |-> Tail(q)]

\* Lines 100-107: recv() returns Some(x).
AwaitSome ==
    /\ pc = "Await"
    /\ rx_reconfigure # <<>>
    /\ new_msg' = Recv(rx_reconfigure).msg
    /\ rx_reconfigure' = Recv(rx_reconfigure).rest
    /\ consumed' = Append(consumed, new_msg')
    /\ pc' = "Drain"
    /\ UNCHANGED <<locals, worker_cache, cells, handles, primary_handles,
                   registry_id, registry_service, store, open_stores,
                   senders_dropped, blocked, closed_with, sent, tasks,
                   progress, notifications, swaps, drops>>

\* Mutant of AwaitNone: the generation is told to shut down before returning.
AwaitNoneDrains ==
    /\ pc = "Await"
    /\ rx_reconfigure = <<>>
    /\ senders_dropped
    /\ tasks' = [t \in DOMAIN tasks |->
                    IF tasks[t].gen = generation /\ tasks[t].role = "primary"
                    THEN [tasks[t] EXCEPT !.signal = TRUE] ELSE tasks[t]]
    /\ notifications' = Append(notifications, [gen |-> generation, ok |-> TRUE])
    /\ pc' = "Terminated"
    /\ LeaveScope("scope")
    /\ UNCHANGED <<locals, worker_cache, cells, registry_id, registry_service,
                   new_msg, channel, progress, consumed, swaps>>

\* Mutant of RecvNone: None as soon as the channel is closed, whatever is
\* still buffered.
RecvNoneOnClose(q, closed) == closed

\* Receiver::recv returns None when every Sender was dropped and no message
\* is buffered.
RecvNone(q, closed) == q = <<>> /\ closed

\* Line 108: recv() returns None (closed and empty): break, watch returns.
AwaitNone ==
    /\ pc = "Await"
    /\ RecvNone(rx_reconfigure, senders_dropped)
    /\ pc' = "Terminated"
    /\ LeaveScope("scope")
    /\ UNCHANGED <<locals, worker_cache, cells, registry_id, registry_service,
                   new_msg, channel, tasks, progress, history>>

\* The primary of the running generation, whose admin server takes the POST.
AdminServerUp == \E t \in TasksOf(generation) : tasks[t].role = "primary" /\ Running(t)

\* Mutant of Delivered: the notification is sent to the workers as well.
DeliveredToAll ==
    [t \in DOMAIN tasks |->
        IF tasks[t].gen = generation
        THEN [tasks[t] EXCEPT !.signal = TRUE] ELSE tasks[t]]

\* The tasks map after the Shutdown notification reached the primary.
Delivered ==
    [t \in DOMAIN tasks |->
        IF tasks[t].gen = generation /\ tasks[t].role = "primary"
        THEN [tasks[t] EXCEPT !.signal = TRUE] ELSE tasks[t]]

\* Lines 114-127, Ok: the Shutdown POST reaches the primary.
DrainNotifyOk ==
    /\ pc = "Drain"
    /\ AdminServerUp
    /\ tasks' = Delivered
    /\ notifications' = Append(notifications, [gen |-> generation, ok |-> TRUE])
    /\ pc' = "Join"
    /\ UNCHANGED <<locals, worker_cache, cells, handles, primary_handles,
                   registry_id, registry_service, store, open_stores, new_msg,
                   channel, progress, consumed, swaps, drops>>

\* Mutant of DrainNotifyErr: the send error is ignored (let _ = ...).
DrainNotifyErrIgnored ==
    /\ pc = "Drain"
    /\ notifications' = Append(notifications, [gen |-> generation, ok |-> FALSE])
    /\ pc' = "Join"
    /\ UNCHANGED <<locals, worker_cache, cells, handles, primary_handles,
                   registry_id, registry_service, store, open_stores, new_msg,
                   channel, tasks, progress, consumed, swaps, drops>>

\* Lines 114-125, Err: send fails, unwrap panics, the locals are unwound.
DrainNotifyErr ==
    /\ pc = "Drain"
    /\ notifications' = Append(notifications, [gen |-> generation, ok |-> FALSE])
    /\ pc' = "Panicked"
    /\ LeaveScope("unwind")
    /\ UNCHANGED <<locals, worker_cache, cells, registry_id, registry_service,
                   new_msg, channel, tasks, progress, consumed, swaps>>

\* Mutant of JoinReady: ready as soon as one task has finished (select, not join).
JoinReadyAny == \E t \in handles : Finished(t)

\* join_all is ready when every handle's task has finished.
JoinReady == \A t \in handles : Finished(t)

\* Mutant of Join: the handles are drained and dropped without being awaited.
JoinDetached ==
    /\ pc = "Join"
    /\ handles' = {}
    /\ generations' = [generations EXCEPT ![generation].drained = TRUE]
    /\ pc' = "Release"
    /\ UNCHANGED <<locals, worker_cache, cells, primary_handles, registry_id,
                   registry_service, store, open_stores, new_msg, channel,
                   tasks, generation, history, drops>>

\* Line 130: join_all(handles.drain(..)): the outcomes are discarded.
Join ==
    /\ pc = "Join"
    /\ JoinReady
    /\ tasks' = [t \in DOMAIN tasks \ {h \in handles : Finished(h)} |-> tasks[t]]
    /\ cells' = DropCells({h \in handles : Finished(h)})
    /\ handles' = {}
    /\ generations' = [generations EXCEPT ![generation].drained = TRUE]
    /\ pc' = "Release"
    /\ UNCHANGED <<locals, worker_cache, primary_handles, registry_id,
                   registry_service, store, open_stores, new_msg, channel,
                   generation, history, drops>>

\* Mutant of DropStore: the binding is given up but the storage stays open.
DropStoreLeaked ==
    /\ open_stores' = open_stores
    /\ store' = NoStore
    /\ drops' = Append(drops, [id |-> store.id, how |-> "release"])

\* Line 133: drop(store).
DropStore ==
    /\ open_stores' = open_stores \ {store}
    /\ store' = NoStore
    /\ drops' = Append(drops, [id |-> store.id, how |-> "release"])

\* Lines 133-137: the store is dropped, the cool-down delay starts.
Release ==
    /\ pc = "Release"
    /\ DropStore
    /\ pc' = "Cooldown"
    /\ UNCHANGED <<locals, worker_cache, cells, handles, primary_handles,
                   registry_id, registry_service, new_msg, channel, tasks,
                   progress, history>>

\* Lines 137-138: the cool-down delay elapses.
Cooldown ==
    /\ pc = "Cooldown"
    /\ pc' = "Adopt"
    /\ UNCHANGED <<locals, worker_cache, cells, handles, primary_handles,
                   registry_id, registry_service, store, open_stores, new_msg,
                   channel, tasks, progress, history, drops>>

\* Mutant of AdoptSettings: name is not recomputed from the new keypair.
AdoptSettingsStaleName ==
    /\ primary_keypair' = new_msg[1]
    /\ primary_network_keypair' = new_msg[2]
    /\ name' = name
    /\ worker_ids_and_keypairs' = new_msg[4]
    /\ committee' = new_msg[3]

\* Lines 141-145: the settings of the next epoch, from the message.
AdoptSettings ==
    /\ primary_keypair' = new_msg[1]
    /\ primary_network_keypair' = new_msg[2]
    /\ name' = Public(new_msg[1])
    /\ worker_ids_and_keypairs' = new_msg[4]
    /\ committee' = new_msg[3]

\* Mutant of SwapWorkerCache: the handle is replaced by a new cell instead of
\* its content being swapped.
SwapWorkerCacheHandle ==
    /\ cells' = NewCell(cells, new_msg[5])
    /\ worker_cache' = Len(cells) + 1
    /\ swaps' = swaps + 1

\* Line 146: worker_cache.swap(Arc::new(new_worker_cache)).
SwapWorkerCache ==
    /\ cells' = [cells EXCEPT ![worker_cache] = new_msg[5]]
    /\ worker_cache' = worker_cache
    /\ swaps' = swaps + 1

\* Mutant of RemoveRegistry: the registry of the finished epoch stays.
RemoveRegistrySkipped == registry_service' = registry_service

\* Lines 148-149: registry_service.remove(registry_id).
RemoveRegistry == registry_service' = registry_service \ {registry_id}

\* Lines 141-150: adopt the message, remove the registry, loop.
Adopt ==
    /\ pc = "Adopt"
    /\ AdoptSettings
    /\ SwapWorkerCache
    /\ RemoveRegistry
    /\ new_msg' = NoMsg
    /\ pc' = "Provision"
    /\ UNCHANGED <<handles, primary_handles, registry_id, store, open_stores,
                   channel, tasks, progress, consumed, notifications,
                   drops>>

\* -------------------------------------------------------------- environment
\* A producer sends a message: Sender::send on the bounded channel.
Send(m) ==
    /\ ~senders_dropped
    /\ Len(sent) < MaxMsgs
    /\ Len(rx_reconfigure) < ChannelCapacity
    /\ rx_reconfigure' = Append(rx_reconfigure, m)
    /\ sent' = Append(sent, m)
    /\ UNCHANGED <<pc, locals, worker_cache, cells, handles, primary_handles,
                   registry_id, registry_service, store, open_stores, new_msg,
                   senders_dropped, blocked, closed_with, tasks, progress,
                   history, drops>>

\* Every Sender is dropped: the channel is closed.
CloseChannel ==
    /\ ~senders_dropped
    /\ blocked = {}
    /\ senders_dropped' = TRUE
    /\ closed_with' = rx_reconfigure
    /\ UNCHANGED <<pc, locals, worker_cache, cells, handles, primary_handles,
                   registry_id, registry_service, store, open_stores, new_msg,
                   rx_reconfigure, blocked, sent, tasks, progress, history,
                   drops>>

\* The tasks with a send in progress.
Sending == {b.task : b \in blocked}

\* process_transaction: epoch += 1 on the epoch of the execution state's
\* committee, which send_new_epoch_reconfigure set at the last send.
NextEpoch == IF sent = <<>> THEN 1 ELSE sent[Len(sent)][3].epoch + 1

\* process_transaction in the primary's executor starts
\* send_new_epoch_reconfigure: the send waits for a permit of the channel.
TaskSend(t, m) ==
    /\ t \in DOMAIN tasks
    /\ tasks[t].role = "primary" /\ Running(t)
    /\ t \notin Sending
    /\ ~senders_dropped
    /\ Len(sent) + Cardinality(blocked) < MaxMsgs + MaxBlocked
    /\ blocked' = blocked \cup {[task |-> t, msg |-> m]}
    /\ UNCHANGED <<pc, locals, worker_cache, cells, handles, primary_handles,
                   registry_id, registry_service, store, open_stores, new_msg,
                   rx_reconfigure, senders_dropped, closed_with, sent, tasks,
                   progress, history, drops>>

\* The channel has room: the waiting send completes and process_transaction
\* returns.
TaskSent(t) ==
    /\ Len(rx_reconfigure) < ChannelCapacity
    /\ \E b \in blocked :
        /\ b.task = t
        /\ rx_reconfigure' = Append(rx_reconfigure, b.msg)
        /\ sent' = Append(sent, b.msg)
        /\ blocked' = blocked \ {b}
    /\ UNCHANGED <<pc, locals, worker_cache, cells, handles, primary_handles,
                   registry_id, registry_service, store, open_stores, new_msg,
                   senders_dropped, closed_with, tasks, progress, history,
                   drops>>

\* The primary observes Shutdown, forwards it to its workers and exits.
PrimaryShutdown(t) ==
    /\ t \in DOMAIN tasks
    /\ tasks[t].role = "primary" /\ Running(t) /\ tasks[t].signal
    /\ t \notin Sending
    /\ tasks' = [u \in DOMAIN tasks |->
                    IF u = t THEN [tasks[u] EXCEPT !.state = "exited"]
                    ELSE IF tasks[u].gen = tasks[t].gen
                         THEN [tasks[u] EXCEPT !.signal = TRUE]
                         ELSE tasks[u]]
    /\ UNCHANGED <<pc, locals, worker_cache, cells, handles, primary_handles,
                   registry_id, registry_service, store, open_stores, new_msg,
                   channel, progress, history, drops>>

\* A worker observes the forwarded Shutdown and exits.
WorkerShutdown(t) ==
    /\ t \in DOMAIN tasks
    /\ tasks[t].role = "worker" /\ Running(t) /\ tasks[t].signal
    /\ tasks' = [tasks EXCEPT ![t].state = "exited"]
    /\ UNCHANGED <<pc, locals, worker_cache, cells, handles, primary_handles,
                   registry_id, registry_service, store, open_stores, new_msg,
                   channel, progress, history, drops>>

\* The primary swaps a committee of another epoch into its Committee handle,
\* at most once in its lifetime.
PrimaryCommitteeSwap(t) ==
    /\ t \in DOMAIN tasks
    /\ tasks[t].role = "primary" /\ Running(t)
    /\ cells[tasks[t].committee] = generations[tasks[t].gen].args.committee
    /\ \E e \in Epochs \ {cells[tasks[t].committee].epoch} :
          cells' = [cells EXCEPT ![tasks[t].committee].epoch = e]
    /\ UNCHANGED <<pc, locals, worker_cache, handles, primary_handles,
                   registry_id, registry_service, store, open_stores, new_msg,
                   channel, tasks, progress, history, drops>>

\* A running task panics.
TaskPanic(t) ==
    /\ t \in DOMAIN tasks
    /\ Running(t)
    /\ t \notin Sending
    /\ tasks' = [tasks EXCEPT ![t].state = "panicked"]
    /\ UNCHANGED <<pc, locals, worker_cache, cells, handles, primary_handles,
                   registry_id, registry_service, store, open_stores, new_msg,
                   channel, progress, history, drops>>

Next ==
    \/ Provision
    \/ SpawnPrimaryOk
    \/ SpawnPrimaryErr
    \/ SpawnWorkers
    \/ Settle
    \/ AwaitSome
    \/ AwaitNone
    \/ DrainNotifyOk
    \/ DrainNotifyErr
    \/ Join
    \/ Release
    \/ Cooldown
    \/ Adopt
    \/ \E e \in Epochs, v \in Variants : Send(ReconfigureMessage(e, v))
    \/ CloseChannel
    \/ \E t \in DOMAIN tasks : PrimaryShutdown(t)
    \/ \E t \in DOMAIN tasks : WorkerShutdown(t)
    \/ \E t \in DOMAIN tasks : PrimaryCommitteeSwap(t)
    \/ \E t \in DOMAIN tasks : TaskPanic(t)

Spec == Init /\ [][Next]_vars

\* The steps of watch: one async fn, polled by the runtime whenever it can
\* proceed.
Supervisor ==
    \/ Provision
    \/ SpawnPrimaryOk
    \/ SpawnPrimaryErr
    \/ SpawnWorkers
    \/ Settle
    \/ AwaitSome
    \/ AwaitNone
    \/ DrainNotifyOk
    \/ DrainNotifyErr
    \/ Join
    \/ Release
    \/ Cooldown
    \/ Adopt

\* Next with the producer that runs inside the generation.
LiveNext ==
    \/ Next
    \/ \E t \in DOMAIN tasks, e \in Epochs \cap {NextEpoch} :
            TaskSend(t, ReconfigureMessage(e, 1))
    \/ \E t \in DOMAIN tasks : TaskSent(t)

\* Fair scheduling: watch proceeds whenever it can, a task that was told to
\* shut down and is not inside a send exits, and a waiting send completes
\* when the channel has room.
LiveSpec ==
    /\ Init
    /\ [][LiveNext]_vars
    /\ WF_vars(Supervisor)
    /\ WF_vars(\E t \in DOMAIN tasks : PrimaryShutdown(t))
    /\ WF_vars(\E t \in DOMAIN tasks : WorkerShutdown(t))
    /\ WF_vars(\E t \in DOMAIN tasks : TaskSent(t))

\* ------------------------------------------------------------------ claims
\* C1: the live primary/worker tasks all belong to one generation: every
\* running task is of the current generation, every earlier generation was
\* drained before the next was spawned, and from the end of the Drain join to
\* the next spawn no task is running.
C1_OneGenerationLive ==
    /\ \A t \in RunningTasks : tasks[t].gen = generation
    /\ \A g \in 1..(Len(generations) - 1) : generations[g].drained
    /\ pc \in {"Release", "Cooldown", "Adopt", "Provision", "SpawnPrimary"}
            => RunningTasks = {}

\* C1 witness: a second generation runs (primary and worker) after the first
\* was drained.
C1_Witness ==
    /\ generation >= 2
    /\ Cardinality(RunningTasks) >= 2
    /\ generations[1].drained

\* C2: the committee epoch of each spawned generation is strictly greater
\* than the committee epoch of the generation before it.
C2_EpochStrictlyIncreases ==
    \A g \in 1..(Len(generations) - 1) :
        generations[g + 1].args.committee.epoch > generations[g].args.committee.epoch

\* C3: a generation's storage scope is never dropped while one of its tasks
\* is still running: every running task's store is open.
C3_StoreOutlivesTasks ==
    \A t \in RunningTasks : tasks[t].store \in open_stores

\* C4: storage lifetimes never overlap: at most one store is open, it is the
\* store of the current iteration, opened for the current committee's epoch,
\* and none is open when Provision begins.
C4_StorageLifetimesDisjoint ==
    /\ Cardinality(open_stores) <= 1
    /\ pc = "Provision" => open_stores = {}
    /\ \A s \in open_stores :
        /\ s = store
        /\ s.id = generation
        /\ s.path = StorePath("base", committee)

\* C4 witness: the store of a later generation is open.
C4_Witness ==
    /\ generation >= 2
    /\ open_stores # {}
    /\ drops = <<[id |-> 1, how |-> "release"]>>

\* C5: the content of the shared WorkerCache is swapped only at Adopt, when
\* no task is running and no handle is held, and no step changes the content a
\* running task reads.
C5_SwapOnlyWhenIdle ==
    [][/\ swaps' # swaps =>
            /\ pc = "Adopt"
            /\ RunningTasks = {}
            /\ handles = {}
            /\ tasks' = tasks
       /\ \A t \in RunningTasks :
            cells'[tasks[t].worker_cache] = cells[tasks[t].worker_cache]]_vars

\* C5 witness: a generation runs after the content was swapped.
C5_Witness ==
    /\ swaps >= 1
    /\ RunningTasks # {}
    /\ cells[worker_cache] # WorkerCacheOf(0, 1)

\* C6: every generation is spawned with the WorkerCache handle passed to
\* watch; the handle never changes, and its content changes only in Adopt, once
\* for each consumed message, to that message's WorkerCache.
C6_WorkerCacheFrame ==
    /\ [](/\ \A t \in DOMAIN tasks : tasks[t].worker_cache = 1
          /\ \A g \in 1..Len(generations) :
                /\ generations[g].handle = 1
                /\ \A i \in 1..Len(generations[g].workers) :
                      generations[g].workers[i].handle = 1
          /\ swaps <= Len(consumed)
          /\ Len(consumed) <= swaps + 1)
    /\ [][/\ worker_cache' = worker_cache
          /\ (cells'[worker_cache] # cells[worker_cache] \/ swaps' # swaps) =>
                /\ pc = "Adopt"
                /\ swaps' = swaps + 1
                /\ swaps' = Len(consumed)
                /\ cells'[worker_cache] = consumed[swaps'][5]]_vars

\* C6 witness: the third generation runs after two swaps on the same handle.
C6_Witness ==
    /\ swaps = 2
    /\ pc = "Await"
    /\ Len(generations) = 3

\* C7: one message is consumed per cycle, in FIFO order: the received
\* messages followed by the buffered ones are the sent ones, the number
\* received follows the cycle, and generation g+1 is spawned with the g-th
\* sent message's committee after generation g was fully spawned and drained.
C7_FifoOnePerCycle ==
    /\ consumed \o rx_reconfigure = sent
    /\ pc \in {"SpawnPrimary", "SpawnWorkers", "Settle", "Await", "Terminated"}
            => Len(consumed) = generation - 1
    /\ pc \in {"Drain", "Join", "Release", "Cooldown", "Adopt", "Provision"}
            => Len(consumed) = generation
    /\ \A g \in 2..Len(generations) :
        /\ generations[g].args.committee = sent[g - 1][3]
        /\ generations[g - 1].workers # <<>>
        /\ generations[g - 1].drained

\* C7 witness: messages of epoch 1 then 2 were sent; the generation of epoch
\* 1 ran and was drained, and the generation of epoch 2 runs.
C7_Witness ==
    /\ Len(generations) = 3
    /\ Len(sent) = 2
    /\ sent[1][3].epoch = 1
    /\ sent[2][3].epoch = 2
    /\ generations[2].args.committee.epoch = 1
    /\ generations[2].drained
    /\ generations[3].args.committee.epoch = 2

\* C8: the generation spawned after a message was consumed gets exactly that
\* message's values: keypairs, name, workers, committee, the content of the
\* shared WorkerCache, and the only open store is the one of the message's
\* committee epoch.
C8_NextGenerationFromMessage ==
    \A g \in 2..Len(generations) :
        LET m == consumed[g - 1]
            p == generations[g].args
            ws == generations[g].workers
            st == [id |-> g, path |-> StorePath("base", m[3])]
        IN /\ p.keypair = m[1]
           /\ p.network_keypair = m[2]
           /\ p.name = Public(m[1])
           /\ p.committee = m[3]
           /\ p.worker_cache = m[5]
           /\ p.store = st
           /\ generations[g].open = {st}
           /\ ws # <<>> =>
                /\ Len(ws) = Len(m[4])
                /\ \A i \in 1..Len(ws) :
                    /\ ws[i].args.name = Public(m[1])
                    /\ ws[i].args.worker_id = m[4][i][1]
                    /\ ws[i].args.network_keypair = m[4][i][2]
                    /\ ws[i].args.committee = m[3]
                    /\ ws[i].args.worker_cache = m[5]
                    /\ ws[i].args.store = st
                    /\ ws[i].open = {st}

\* C8 witness: the second generation was fully spawned from a message whose
\* values all differ from the ones watch was called with.
C8_Witness ==
    /\ Len(generations) >= 2
    /\ generations[2].workers # <<>>
    /\ consumed[1] = ReconfigureMessage(1, 2)

\* C9: when the channel is closed and empty at Await, the only step of watch
\* is to return: no Shutdown is sent, the tasks are left as they are, the
\* WorkerCache is not swapped, and after the return nothing is spawned, sent
\* or swapped.
C9_CloseReturnsWithoutDrain ==
    [][/\ (pc = "Await" /\ rx_reconfigure = <<>> /\ senders_dropped /\ pc' # pc) =>
            /\ pc' = "Terminated"
            /\ UNCHANGED <<notifications, tasks, swaps, cells, locals, progress>>
       /\ pc = "Terminated" =>
            /\ pc' = "Terminated"
            /\ UNCHANGED <<notifications, swaps, locals, progress>>
            /\ cells'[worker_cache] = cells[worker_cache]]_vars

\* C9 witness: watch has returned on a closed channel and tasks still run.
C9_Witness ==
    /\ pc = "Terminated"
    /\ senders_dropped
    /\ RunningTasks # {}

\* C10: when the Shutdown POST fails, watch panics at once: the store is not
\* dropped by Release, the settings and the WorkerCache content stay, the
\* tasks are left as they are, and nothing is spawned afterwards.
C10_NotifyFailureIsFatal ==
    [][/\ (Len(notifications') > Len(notifications)
            /\ ~notifications'[Len(notifications')].ok) =>
            /\ pc' = "Panicked"
            /\ \A i \in 1..Len(drops') :
                    drops'[i].id = generation => drops'[i].how # "release"
            /\ UNCHANGED <<locals, swaps, tasks, progress>>
            /\ cells' = cells
       /\ pc = "Panicked" =>
            /\ pc' = "Panicked"
            /\ UNCHANGED <<locals, swaps, progress, drops, open_stores>>
            /\ cells'[worker_cache] = cells[worker_cache]]_vars

\* C10 witness: watch panicked on a failed Shutdown POST while the generation
\* is still running.
C10_Witness ==
    /\ pc = "Panicked"
    /\ notifications # <<>>
    /\ ~notifications[Len(notifications)].ok
    /\ RunningTasks # {}

\* C11: a panic of a task of the generation being drained fails the cycle:
\* the join does not lead on to Release when one of the joined tasks panicked.
C11_TaskPanicSurfaced ==
    [][(pc = "Join" /\ \E h \in handles : tasks[h].state = "panicked")
            => pc' # "Release"]_vars

\* C12: no storage is provisioned for a repeated or regressed epoch: the
\* epoch of an open store is greater than the epoch of every generation
\* spawned in an earlier iteration.
C12_NoRepeatedEpochProvisioned ==
    \A s \in open_stores : \A g \in 1..Len(generations) :
        g < s.id => generations[g].args.committee.epoch < s.path[3]

\* C13: at most one epoch registry is registered: none when Provision
\* begins, otherwise exactly the one of the current iteration, and the
\* registry of a running task is registered.
C13_OneRegistryRegistered ==
    /\ Cardinality(registry_service) <= 1
    /\ pc = "Provision" => registry_service = {}
    /\ pc # "Provision" => registry_service = {generation} /\ registry_id = generation
    /\ \A t \in RunningTasks : tasks[t].registry \in registry_service

\* C13 witness: the second generation runs with its registry registered and
\* the first one's removed.
C13_Witness ==
    /\ generation = 2
    /\ RunningTasks # {}
    /\ registry_service = {2}

\* C14: the supervisor settles and awaits only with a fully formed
\* generation: the primary and every worker were spawned and their handles
\* are held; when spawn_primary failed, watch panicked.
C14_NoPartialGeneration ==
    /\ pc \in {"Settle", "Await"} =>
        /\ Len(generations) = generation
        /\ Len(generations[generation].workers) = Len(worker_ids_and_keypairs)
        /\ handles = {<<generation, i>> : i \in 0..Len(worker_ids_and_keypairs)}
        /\ handles \subseteq DOMAIN tasks
    /\ Len(generations) < generation => pc \in {"SpawnPrimary", "Panicked"}

\* C14 witness: spawn_primary of the second generation failed and watch
\* panicked.
C14_Witness ==
    /\ pc = "Panicked"
    /\ generation = 2
    /\ Len(generations) = 1

\* C15: when watch has returned, every scope of its cycles was destroyed
\* after the generation exited: no epoch registry is registered and no running
\* task's store was dropped.
C15_ScopesDestroyedInCycle ==
    pc = "Terminated" =>
        /\ registry_service = {}
        /\ \A t \in RunningTasks : \A i \in 1..Len(drops) : drops[i].id # tasks[t].store.id

\* C16: one Shutdown POST per consumed message, sent in Drain after the
\* message was received and before the handles are awaited, delivered to the
\* primary of the current generation only; no step of watch changes a task's
\* state, and no POST is sent without a consumed message.
C16_OneShutdownToPrimary ==
    /\ [](/\ pc = "Drain" => Len(notifications) = Len(consumed) - 1
          /\ pc # "Drain" => Len(notifications) = Len(consumed)
          /\ \A i \in 1..Len(notifications) : notifications[i].gen = i)
    /\ [][/\ notifications' # notifications =>
                /\ pc = "Drain"
                /\ pc' \in {"Join", "Panicked"}
                /\ Len(notifications') = Len(notifications) + 1
                /\ handles # {}
          /\ pc' # pc => \A t \in DOMAIN tasks \cap DOMAIN tasks' :
                /\ tasks'[t].state = tasks[t].state
                /\ tasks'[t].signal # tasks[t].signal =>
                    /\ tasks[t].role = "primary"
                    /\ tasks[t].gen = generation
                    /\ notifications' # notifications]_vars

\* C16 witness: two messages were consumed and two POSTs delivered, the
\* second one to the primary of the second generation while its workers run.
C16_Witness ==
    /\ pc = "Join"
    /\ Len(notifications) = 2
    /\ notifications[2].ok
    /\ \E t \in RunningTasks : tasks[t].role = "primary" /\ tasks[t].signal
    /\ \E t \in RunningTasks : tasks[t].role = "worker" /\ ~tasks[t].signal

\* C17: the store of every generation is at base/epoch{N}, N the epoch of
\* the committee its primary and workers are spawned with.
C17_StorePathIsCommitteeEpoch ==
    /\ \A g \in 1..Len(generations) :
        LET p == generations[g].args
            ws == generations[g].workers
        IN /\ p.store.path = <<"base", "epoch", p.committee.epoch>>
           /\ generations[g].open = {p.store}
           /\ \A i \in 1..Len(ws) :
                /\ ws[i].args.store.path = <<"base", "epoch", ws[i].args.committee.epoch>>
                /\ ws[i].args.store = p.store
    /\ store # NoStore => store.path = <<"base", "epoch", committee.epoch>>

\* C17 witness: the second generation was spawned with the epoch-2 committee
\* on the store epoch2.
C17_Witness ==
    /\ Len(generations) = 2
    /\ generations[2].workers # <<>>
    /\ generations[2].args.committee.epoch = 2
    /\ open_stores = {[id |-> 2, path |-> <<"base", "epoch", 2>>]}

\* C18: no Committee handle is shared across generations: every spawn call
\* makes a new cell holding the supervisor's committee, the cells of two
\* generations are disjoint and none is the worker cache handle; a swap by a
\* running task changes its own cell only, not the supervisor's committee
\* and not a cell of another generation.
C18_CommitteeCellPerGeneration ==
    /\ [](LET CellsOf(g) ==
                {generations[g].cell} \cup
                {generations[g].workers[i].cell : i \in 1..Len(generations[g].workers)}
          IN /\ \A g, h \in 1..Len(generations) :
                    g # h => CellsOf(g) \cap CellsOf(h) = {}
             /\ \A g \in 1..Len(generations) : worker_cache \notin CellsOf(g)
             /\ \A t \in DOMAIN tasks : tasks[t].committee \in CellsOf(tasks[t].gen))
    /\ [][/\ (pc' # pc /\ pc' \in {"SpawnWorkers", "Settle"}) =>
                /\ cells' = Append(cells, committee)
                /\ \A t \in DOMAIN tasks' \ DOMAIN tasks : tasks'[t].committee = Len(cells')
          /\ \A t \in DOMAIN tasks :
                (Running(t) /\ cells'[tasks[t].committee] # cells[tasks[t].committee]) =>
                    /\ committee' = committee
                    /\ generations' = generations
                    /\ \A c \in DOMAIN cells \ {tasks[t].committee} : cells'[c] = cells[c]]_vars

\* C18 witness: the primary of the second generation swapped its committee
\* cell; the supervisor still holds the committee it spawned with and the
\* first generation's cell is gone.
C18_Witness ==
    /\ pc = "Await"
    /\ generation = 2
    /\ \E t \in RunningTasks :
        /\ tasks[t].role = "primary"
        /\ tasks[t].gen = 2
        /\ cells[tasks[t].committee] # committee
    /\ committee = generations[2].args.committee
    /\ cells[generations[1].cell] = Freed

C21_CloseKeepsBufferedMessages ==
    /\ [](/\ sent = consumed \o rx_reconfigure
          /\ ~senders_dropped => closed_with = <<>>
          /\ senders_dropped =>
                /\ Len(closed_with) <= Len(sent)
                /\ closed_with = SubSeq(sent, Len(sent) - Len(closed_with) + 1, Len(sent))
          /\ pc = "Terminated" =>
                /\ senders_dropped /\ rx_reconfigure = <<>>
                /\ consumed = sent
                /\ Len(notifications) = Len(sent)
                /\ swaps = Len(sent)
                /\ Len(drops) = Len(sent) + 1
                /\ Len(generations) = Len(sent) + 1
                /\ \A k \in 1..Len(sent) :
                    /\ generations[k].drained
                    /\ generations[k + 1].args.committee = sent[k][3]
                /\ ~generations[Len(generations)].drained
                /\ \A t \in DOMAIN tasks : tasks[t].gen = Len(generations))
    /\ [][/\ senders_dropped =>
                /\ sent' = sent
                /\ closed_with' = closed_with
                /\ \/ rx_reconfigure' = rx_reconfigure
                   \/ /\ pc = "Await" /\ pc' = "Drain"
                      /\ rx_reconfigure' = Tail(rx_reconfigure)
                      /\ new_msg' = Head(rx_reconfigure)
          /\ (pc' = "Terminated" /\ pc # "Terminated") =>
                pc = "Await" /\ senders_dropped /\ rx_reconfigure = <<>>
          /\ (pc = "Await" /\ rx_reconfigure # <<>> /\ pc' # pc) =>
                pc' = "Drain"]_vars

\* C21 witness: the channel was closed with the messages of epoch 1 and 2
\* buffered; watch ran two more cycles and returned with the generation of
\* epoch 2 running.
C21_Witness ==
    /\ pc = "Terminated"
    /\ Len(closed_with) = 2
    /\ closed_with[1][3].epoch = 1
    /\ closed_with[2][3].epoch = 2
    /\ Len(generations) = 3
    /\ generations[2].args.committee = closed_with[1][3]
    /\ generations[3].args.committee = closed_with[2][3]
    /\ \E t \in RunningTasks : tasks[t].gen = 3

====
